---- MODULE Spec2Model ----
(***************************************************************************)
(* archive-tools: the four CLI commands of the Classic Mini DIY archive    *)
(* (generate-previews, generate-markdown, s3-download, s3-upload) as one   *)
(* state machine.  One process run executes one command; `cmd` says which. *)
(* File names, paths, keys and URLs are sequences of one-character         *)
(* strings, so that the string functions of the code (extname, basename,   *)
(* trim, replace, toLowerCase) are computed character by character.        *)
(***************************************************************************)
EXTENDS Integers, Sequences, FiniteSets, TLC

(***************************************************************************)
(* Bounds of the model.                                                    *)
(***************************************************************************)
\* longest stem (the part before the extension) of a generated file name
MaxStem == 4
\* most files in a staging directory of generate-markdown drawn from StagingPool
MaxStaging == 2
\* most entries in the source directory of generate-previews
MaxSource == 3
\* most entries in one directory of the tree s3-upload walks
MaxEntries == 2
\* most keys the bucket holds under the prefix of s3-download
NumKeys == 7
\* largest page size (--max-keys) s3-download is run with
MaxPage == 2

(***************************************************************************)
(* Characters and strings.                                                 *)
(***************************************************************************)
\* JavaScript's \s, as far as the alphabet of the model goes
Whitespace == {" ", "\t"}

UpperCase == <<"A", "D", "F", "K", "P", "X">>
LowerCase == <<"a", "d", "f", "k", "p", "x">>

Letters ==
  {UpperCase[i] : i \in DOMAIN UpperCase} \cup
  {"a", "b", "c", "d", "e", "f", "g", "i", "j", "k", "l", "m", "n", "o", "p",
   "r", "s", "t", "u", "v", "x", "y", "z"}

Digits == {"0", "1", "2", "3", "4", "5", "6", "7", "8", "9"}

\* String.prototype.toLowerCase, one character
LowerChar(c) ==
  IF \E i \in DOMAIN UpperCase : UpperCase[i] = c
  THEN LowerCase[CHOOSE i \in DOMAIN UpperCase : UpperCase[i] = c]
  ELSE c

toLowerCase(s) == [i \in DOMAIN s |-> LowerChar(s[i])]

\* String.prototype.lastIndexOf, 1-based: 0 where JavaScript gives -1
lastIndexOf(s, c) ==
  IF \E i \in DOMAIN s : s[i] = c
  THEN CHOOSE i \in DOMAIN s : s[i] = c /\ \A j \in DOMAIN s : s[j] = c => j <= i
  ELSE 0

\* String.prototype.substring(0, end) with a 0-based exclusive end; a negative
\* end counts as 0
substring0(s, end) == SubSeq(s, 1, IF end < 0 THEN 0 ELSE end)

endsWith(s, suffix) ==
  /\ Len(suffix) <= Len(s)
  /\ SubSeq(s, Len(s) - Len(suffix) + 1, Len(s)) = suffix

RECURSIVE trimStart(_)
trimStart(s) ==
  IF s # <<>> /\ Head(s) \in Whitespace THEN trimStart(Tail(s)) ELSE s

RECURSIVE trimEnd(_)
trimEnd(s) ==
  IF s # <<>> /\ s[Len(s)] \in Whitespace
  THEN trimEnd(SubSeq(s, 1, Len(s) - 1))
  ELSE s

\* String.prototype.trim
trim(s) == trimEnd(trimStart(s))

\* replaceWhitespaceRuns with the pattern /\s/g: every whitespace character
\* becomes rep
RECURSIVE replaceEachWhitespace(_, _)
replaceEachWhitespace(s, rep) ==
  IF s = <<>> THEN <<>>
  ELSE IF Head(s) \in Whitespace
       THEN rep \o replaceEachWhitespace(Tail(s), rep)
       ELSE <<Head(s)>> \o replaceEachWhitespace(Tail(s), rep)

\* s.replace(/\s+/g, rep): every maximal run of whitespace becomes rep
RECURSIVE replaceWhitespaceRuns(_, _)
replaceWhitespaceRuns(s, rep) ==
  IF s = <<>> THEN <<>>
  ELSE IF Head(s) \in Whitespace
       THEN rep \o replaceWhitespaceRuns(trimStart(Tail(s)), rep)
       ELSE <<Head(s)>> \o replaceWhitespaceRuns(Tail(s), rep)

\* the characters the class [a-zA-Z0-9-] accepts
SlugChars == Letters \cup Digits \cup {"-"}

\* s.replace(/[^a-zA-Z0-9-]/g, '')
RECURSIVE removeNonSlugChars(_)
removeNonSlugChars(s) ==
  IF s = <<>> THEN <<>>
  ELSE IF Head(s) \in SlugChars
       THEN <<Head(s)>> \o removeNonSlugChars(Tail(s))
       ELSE removeNonSlugChars(Tail(s))

\* path.join of a directory and one entry name that holds no separator; an
\* empty directory segment is left out
pathJoin(dir, name) == IF dir = <<>> THEN name ELSE dir \o <<"/">> \o name

\* path.relative(base, dir) of a directory at or below base
pathRelative(base, dir) ==
  IF dir = base THEN <<>> ELSE SubSeq(dir, Len(base) + 2, Len(dir))

\* path.dirname(p) of a path that holds a separator
pathDirname(p) == SubSeq(p, 1, lastIndexOf(p, "/") - 1)

\* path.basename(p): what follows the last separator
pathBasename(p) == SubSeq(p, lastIndexOf(p, "/") + 1, Len(p))

\* path.extname of a name that holds no separator: from the last dot on, and
\* empty when there is no dot, when the only dot leads the name, or for ".."
extname(name) ==
  LET dot == lastIndexOf(name, ".") IN
  IF dot = 0 \/ dot = 1 \/ name = <<".", ".">> THEN <<>>
  ELSE SubSeq(name, dot, Len(name))

\* path.basename(name, ext) of a name that holds no separator: the suffix is
\* compared as it is written (case matters) and a name equal to it is kept
basename(name, ext) ==
  IF name # ext /\ endsWith(name, ext)
  THEN SubSeq(name, 1, Len(name) - Len(ext))
  ELSE name

(***************************************************************************)
(* String constants of the code.                                           *)
(***************************************************************************)
DotPdf == <<".", "p", "d", "f">>
DotMd == <<".", "m", "d">>
DotJpeg == <<".", "j", "p", "e", "g">>
Images == <<"i", "m", "a", "g", "e", "s">>
Documents == <<"d", "o", "c", "u", "m", "e", "n", "t", "s">>
Misc == <<"m", "i", "s", "c">>

(***************************************************************************)
(* File names the commands are run on.                                     *)
(***************************************************************************)
StemAlphabet == {"A", "b", " ", "-", "#", "."}

RECURSIVE Stems(_)
Stems(n) ==
  IF n = 0 THEN {<<>>}
  ELSE LET shorter == Stems(n - 1) IN
       shorter \cup {s \o <<c>> : s \in {t \in shorter : Len(t) = n - 1},
                                  c \in StemAlphabet}

Extensions == {DotPdf, <<".", "P", "D", "F">>, <<".", "t", "x", "t">>}

GeneratedNames == {s \o e : s \in Stems(MaxStem), e \in Extensions}

\* "ADK 1152 v2.pdf"
AdkV2Pdf ==
  <<"A", "D", "K", " ", "1", "1", "5", "2", " ", "v", "2", ".", "p", "d", "f">>
\* "ADK1152.pdf"
Adk1152Pdf == <<"A", "D", "K", "1", "1", "5", "2", ".", "p", "d", "f">>
\* "A B.pdf", "A-B.pdf", "###.pdf", ".pdf", "b.txt", "A.PDF" and the two above
StagingPool ==
  << <<"A", " ", "B", ".", "p", "d", "f">>,
     <<"A", "-", "B", ".", "p", "d", "f">>,
     <<"#", "#", "#", ".", "p", "d", "f">>,
     DotPdf,
     <<"b", ".", "t", "x", "t">>,
     <<"A", ".", "P", "D", "F">>,
     AdkV2Pdf,
     Adk1152Pdf >>

\* the sequences of at most n distinct members of pool, in pool order (the
\* order readdir lists them in)
RECURSIVE Listings(_, _, _)
Listings(pool, from, n) ==
  IF n = 0 \/ from > Len(pool) THEN {<<>>}
  ELSE Listings(pool, from + 1, n) \cup
       {<<pool[from]>> \o l : l \in Listings(pool, from + 1, n - 1)}

(***************************************************************************)
(* The state of one process run.                                           *)
(***************************************************************************)
VARIABLES
  cmd,        \* the CLI command this run executes
  pc,         \* where the command's top-level async method stands
  result,     \* its promise: "pending", "resolved" or "rejected"
  exitCode,   \* process.exit's argument, NoExit while the process runs
  log,        \* what the pino logger was given: records level, msg, item
  disk,       \* local files written by this run: path -> content
  dirs,       \* local directories created by this run
  staging,    \* generate-markdown: what readdir(stagingFolder) lists
  procs,      \* generate-markdown: one record per processFile call
  source,     \* generate-previews: what readdir(this.source) lists
  format,     \* generate-previews: defaultOptions.format
  pdfFiles,   \* generate-previews: the listed names that pass the filter
  idx,        \* generate-previews: the loop's place in pdfFiles
  attempts,   \* generate-previews: one record per convertPdfToImage call
  tree,       \* s3-upload: the entries of options.localPath, as readdir and
              \* stat give them, directory by directory
  dryRun,     \* s3-upload: options.dryRun
  defaultCategory,  \* s3-upload: options.defaultCategory, <<>> when not given
  files,      \* s3-upload: what walkDirectory returned
  ui,         \* s3-upload: the loop's place in files
  reads,      \* s3-upload: the paths readFile was called on, in call order
  puts,       \* s3-upload: the PutObject requests sent, in sending order
  bucket,     \* s3-upload: the objects this run stored: key -> request
  bucketKeys, \* s3-download: the keys the bucket holds under the prefix, in
              \* the order S3 lists them
  maxKeys,    \* s3-download: config.maxKeys
  objects,    \* s3-download: listObjects' result so far
  continuationToken,  \* s3-download: NoToken, or where the next page starts
  listRequests,       \* s3-download: the ContinuationToken of each list
                      \* request sent, in sending order
  bi,         \* s3-download: how many objects the started batches cover
  dl          \* s3-download: one record per object: its key, how far its
              \* downloadFile call is, the calls and GetObject requests made
              \* for it, and whether a response came with a body that is
              \* not a stream

commonVars == <<cmd, pc, result, exitCode, log, disk, dirs>>
mdVars == <<staging, procs>>
pvVars == <<source, format, pdfFiles, idx, attempts>>
upVars == <<tree, dryRun, defaultCategory, files, ui, reads, puts, bucket>>
dnVars == <<bucketKeys, maxKeys, objects, continuationToken, listRequests, bi, dl>>
vars == <<commonVars, mdVars, pvVars, upVars, dnVars>>

\* the variables of the commands a run of one command leaves alone
notMd == <<pvVars, upVars, dnVars>>
notPv == <<mdVars, upVars, dnVars>>
notUp == <<mdVars, pvVars, dnVars>>
notDn == <<mdVars, pvVars, upVars>>

NoExit == -1

GenerateMarkdown == "generate-markdown"
GeneratePreviews == "generate-previews"
S3Upload == "s3-upload"
S3Download == "s3-download"

LogEntry(level, msg, item) == [level |-> level, msg |-> msg, item |-> item]

\* fs.writeFile(path, content): creates the file or replaces its content
writeFile(fs, path, content) ==
  [p \in DOMAIN fs \cup {path} |-> IF p = path THEN content ELSE fs[p]]

\* fs.rename(from, to) of an existing file: `to` gets its content (replacing
\* what was there) and `from` is gone
rename(fs, from, to) ==
  [p \in (DOMAIN fs \ {from}) \cup {to} |-> IF p = to THEN fs[from] ELSE fs[p]]

(***************************************************************************)
(* generate-markdown: DirectoryMaker.                                      *)
(***************************************************************************)
\* "mini"
prefix == <<"m", "i", "n", "i">>
\* "https://bucket.s3.amazonaws.com"
awsLocation ==
  <<"h", "t", "t", "p", "s", ":", "/", "/", "b", "u", "c", "k", "e", "t", ".",
    "s", "3", ".", "a", "m", "a", "z", "o", "n", "a", "w", "s", ".", "c", "o",
    "m">>
\* "content/archive", the constructor's default
outputBasePath ==
  <<"c", "o", "n", "t", "e", "n", "t", "/", "a", "r", "c", "h", "i", "v", "e">>
\* path.join(process.cwd(), this.outputBasePath, this.prefix), relative to cwd
outputDir == pathJoin(outputBasePath, prefix)

extractMetadata(filename) ==
  LET fileNameWithoutExt ==
        trim(substring0(filename, lastIndexOf(filename, ".") - 1))
      sanitizedFileName ==
        removeNonSlugChars(replaceWhitespaceRuns(fileNameWithoutExt, <<"-">>))
      sanitizedTitle == fileNameWithoutExt
  IN [ sanitizedFileName |-> sanitizedFileName,
       sanitizedTitle |-> sanitizedTitle,
       awsImage |->
         awsLocation \o <<"/">> \o prefix \o <<"/">> \o Images \o <<"/">> \o
         replaceWhitespaceRuns(sanitizedTitle, <<"+">>) \o DotJpeg,
       download |->
         awsLocation \o <<"/">> \o prefix \o <<"/">> \o Documents \o <<"/">> \o
         replaceWhitespaceRuns(filename, <<"+">>) ]

\* the front matter, key by key in the order of the template
generateMarkdownContent(metadata) ==
  << <<"title", metadata.sanitizedTitle>>,
     <<"slug", metadata.sanitizedFileName>>,
     <<"description", <<>> >>,
     <<"code", metadata.sanitizedFileName>>,
     <<"image", metadata.awsImage>>,
     <<"download", metadata.download>> >>

\* processFile without the skip of non-PDF names
processFileEveryEntry(filename) ==
  LET metadata == extractMetadata(filename) IN
  [ filename |-> filename, status |-> "writing",
    outputPath |-> pathJoin(outputDir, metadata.sanitizedFileName \o DotMd),
    contents |-> generateMarkdownContent(metadata) ]

\* processFile up to its first await: a non-PDF name is skipped (the promise
\* resolves), a PDF name gets its metadata, content and output path and its
\* writeFile is issued
processFile(filename) ==
  IF ~endsWith(toLowerCase(filename), DotPdf)
  THEN [ filename |-> filename, status |-> "skipped",
         outputPath |-> <<>>, contents |-> <<>> ]
  ELSE LET metadata == extractMetadata(filename) IN
       [ filename |-> filename, status |-> "writing",
         outputPath |-> pathJoin(outputDir, metadata.sanitizedFileName \o DotMd),
         contents |-> generateMarkdownContent(metadata) ]

\* createFilesFromDirectory's catch: log and re-throw
mdReject ==
  /\ result' = "rejected"
  /\ pc' = "done"

\* await this.ensureDirectoryExists(outputDir)
MdEnsureDirectoryExists ==
  /\ cmd = GenerateMarkdown /\ pc = "start"
  /\ \/ /\ dirs' = dirs \cup {outputDir}
        /\ pc' = "readdir"
        /\ UNCHANGED <<result, log>>
     \/ /\ log' = log \cup
             { LogEntry("error", "Failed to create directory", outputDir),
               LogEntry("error", "Failed to process directory", <<>>) }
        /\ mdReject
        /\ UNCHANGED dirs
  /\ UNCHANGED <<cmd, exitCode, disk, mdVars, notMd>>

\* Promise.all over no pending promise resolves at once
mdAllSettled(ps) == \A i \in DOMAIN ps : ps[i].status \in {"skipped", "written"}

\* const files = await fs.readdir(stagingFolder); files.map(processFile);
\* every processFile runs to its writeFile before the Promise.all is awaited
MdReaddirAndMap ==
  /\ cmd = GenerateMarkdown /\ pc = "readdir"
  /\ \/ LET ps == [i \in DOMAIN staging |-> processFile(staging[i])] IN
        /\ procs' = ps
        /\ IF mdAllSettled(ps)
           THEN /\ result' = "resolved"
                /\ pc' = "done"
                /\ log' = log \cup {LogEntry("info", "Successfully processed", <<>>)}
           ELSE /\ pc' = "await"
                /\ UNCHANGED <<result, log>>
     \/ /\ log' = log \cup {LogEntry("error", "Failed to process directory", <<>>)}
        /\ mdReject
        /\ UNCHANGED procs
  /\ UNCHANGED <<cmd, exitCode, disk, dirs, staging, notMd>>

\* writes that are dropped once the Promise.all has rejected
mdWriteCancelled == exitCode = NoExit /\ result = "pending"

\* an issued fs.writeFile is not tied to the Promise.all that awaits it: it
\* goes on for as long as the process runs
mdWriteGoesOn == exitCode = NoExit

\* one issued fs.writeFile completes; the last one to complete resolves the
\* Promise.all
MdWriteFileDone(i) ==
  /\ cmd = GenerateMarkdown /\ mdWriteGoesOn
  /\ i \in DOMAIN procs /\ procs[i].status = "writing"
  /\ LET ps == [procs EXCEPT ![i].status = "written"] IN
     /\ procs' = ps
     /\ disk' = writeFile(disk, procs[i].outputPath, procs[i].contents)
     /\ IF pc = "await" /\ mdAllSettled(ps)
        THEN /\ result' = "resolved"
             /\ pc' = "done"
             /\ log' = log \cup
                  { LogEntry("info", "Created file", procs[i].outputPath),
                    LogEntry("info", "Successfully processed", <<>>) }
        ELSE /\ log' = log \cup
                  {LogEntry("info", "Created file", procs[i].outputPath)}
             /\ UNCHANGED <<result, pc>>
  /\ UNCHANGED <<cmd, exitCode, dirs, staging, notMd>>

\* one issued fs.writeFile fails: processFile logs and re-throws, and the first
\* rejection rejects the Promise.all
MdWriteFileFail(i) ==
  /\ cmd = GenerateMarkdown /\ mdWriteGoesOn
  /\ i \in DOMAIN procs /\ procs[i].status = "writing"
  /\ procs' = [procs EXCEPT ![i].status = "failed"]
  /\ IF pc = "await"
     THEN /\ mdReject
          /\ log' = log \cup
               { LogEntry("error", "Failed to process file", procs[i].filename),
                 LogEntry("error", "Failed to process directory", <<>>) }
     ELSE /\ log' = log \cup
               {LogEntry("error", "Failed to process file", procs[i].filename)}
          /\ UNCHANGED <<result, pc>>
  /\ UNCHANGED <<cmd, exitCode, disk, dirs, staging, notMd>>

(***************************************************************************)
(* generate-previews: ImagePreviewMaker.                                   *)
(***************************************************************************)
\* this.output
output == <<"o", "u", "t">>

Jpeg == <<"j", "p", "e", "g">>
Png == <<"p", "n", "g">>

\* "a.1.pdf", "a.pdf", "b.PDF", "c.txt", "d.pdf", in the order readdir lists them
SourcePool ==
  << <<"a", ".", "1", ".", "p", "d", "f">>,
     <<"a", ".", "p", "d", "f">>,
     <<"b", ".", "P", "D", "F">>,
     <<"c", ".", "t", "x", "t">>,
     <<"d", ".", "p", "d", "f">> >>

\* files.filter((file) => path.extname(file).toLowerCase() === '.pdf')
isPdfFile(file) == toLowerCase(extname(file)) = DotPdf

\* path.basename(file, '.pdf')
baseNameOf(file) == basename(file, DotPdf)

\* path.join(this.output, `${baseName}.${format}`)
outputFilePath(file) == pathJoin(output, baseNameOf(file) \o <<".">> \o format)

\* path.join(this.output, `${baseName}.1.${format}`): where pdf2pic saves page 1
tempFilePath(file) ==
  pathJoin(output, baseNameOf(file) \o <<".", "1", ".">> \o format)

\* the image pdf2pic renders from a file
imageOf(file) == <<"image", file>>

\* createPreviews' outer catch: log and re-throw
pvReject ==
  /\ log' = log \cup {LogEntry("error", "Error in createPreviews", <<>>)}
  /\ result' = "rejected"
  /\ pc' = "done"

\* await this.ensureOutputDirectoryExists()
PvEnsureOutputDirectoryExists ==
  /\ cmd = GeneratePreviews /\ pc = "start"
  /\ \/ /\ dirs' = dirs \cup {output}
        /\ pc' = "readdir"
        /\ UNCHANGED <<result, log>>
     \/ /\ pvReject
        /\ UNCHANGED dirs
  /\ UNCHANGED <<cmd, exitCode, disk, pvVars, notPv>>

\* const files = await readdir(this.source), the filter and the early return
PvReaddir ==
  /\ cmd = GeneratePreviews /\ pc = "readdir"
  /\ \/ LET found == SelectSeq(source, isPdfFile) IN
        /\ pdfFiles' = found
        /\ IF Len(found) = 0
           THEN /\ log' = log \cup {LogEntry("info", "No PDF files found", <<>>)}
                /\ result' = "resolved"
                /\ pc' = "done"
           ELSE /\ log' = log \cup {LogEntry("info", "Found PDF files", Len(found))}
                /\ pc' = "loop"
                /\ UNCHANGED result
     \/ /\ pvReject
        /\ UNCHANGED pdfFiles
  /\ UNCHANGED <<cmd, exitCode, disk, dirs, source, format, idx, attempts, notPv>>

\* the head of the for loop: the next file's convertPdfToImage is called and
\* awaits storeAsImage(1), or the loop is over and createPreviews returns
PvLoop ==
  /\ cmd = GeneratePreviews /\ pc = "loop"
  /\ IF idx <= Len(pdfFiles)
     THEN /\ log' = log \cup {LogEntry("info", "Converting", pdfFiles[idx])}
          /\ attempts' = Append(attempts, [file |-> pdfFiles[idx], status |-> "storing"])
          /\ pc' = "storeAsImage"
          /\ UNCHANGED result
     ELSE /\ log' = log \cup {LogEntry("info", "PDF conversion process completed", <<>>)}
          /\ result' = "resolved"
          /\ pc' = "done"
          /\ UNCHANGED attempts
  /\ UNCHANGED <<cmd, exitCode, disk, dirs, source, format, pdfFiles, idx, notPv>>

\* pvCatch with the error re-thrown to createPreviews' outer catch
pvCatchRethrows ==
  /\ pvReject
  /\ attempts' = [attempts EXCEPT ![Len(attempts)].status = "failed"]
  /\ UNCHANGED idx

\* pvCatch with nothing logged
pvCatchSilent ==
  /\ attempts' = [attempts EXCEPT ![Len(attempts)].status = "failed"]
  /\ idx' = idx + 1
  /\ pc' = "loop"
  /\ UNCHANGED <<result, log>>

\* pvCatch with the same file tried again
pvCatchRetries ==
  /\ log' = log \cup {LogEntry("error", "Error converting", pdfFiles[idx])}
  /\ attempts' = [attempts EXCEPT ![Len(attempts)].status = "failed"]
  /\ pc' = "loop"
  /\ UNCHANGED <<result, idx>>

\* the loop body's catch: log the file and go on with the next one
pvCatch ==
  /\ log' = log \cup {LogEntry("error", "Error converting", pdfFiles[idx])}
  /\ attempts' = [attempts EXCEPT ![Len(attempts)].status = "failed"]
  /\ idx' = idx + 1
  /\ pc' = "loop"
  /\ UNCHANGED result

\* const result = await storeAsImage(1): pdf2pic saves page 1 under the
\* temporary name, or rejects
PvStoreAsImage ==
  /\ cmd = GeneratePreviews /\ pc = "storeAsImage"
  /\ \/ /\ disk' = writeFile(disk, tempFilePath(pdfFiles[idx]), imageOf(pdfFiles[idx]))
        /\ log' = log \cup {LogEntry("info", "Converted successfully", pdfFiles[idx])}
        /\ attempts' = [attempts EXCEPT ![Len(attempts)].status = "renaming"]
        /\ pc' = "rename"
        /\ UNCHANGED <<result, idx>>
     \/ /\ pvCatch
        /\ UNCHANGED disk
  /\ UNCHANGED <<cmd, exitCode, dirs, source, format, pdfFiles, notPv>>

\* await rename(tempFilePath, outputFilePath)
PvRename ==
  /\ cmd = GeneratePreviews /\ pc = "rename"
  /\ \/ /\ tempFilePath(pdfFiles[idx]) \in DOMAIN disk
        /\ disk' = rename(disk, tempFilePath(pdfFiles[idx]), outputFilePath(pdfFiles[idx]))
        /\ attempts' = [attempts EXCEPT ![Len(attempts)].status = "done"]
        /\ idx' = idx + 1
        /\ pc' = "loop"
        /\ UNCHANGED <<result, log>>
     \/ /\ pvCatch
        /\ UNCHANGED disk
  /\ UNCHANGED <<cmd, exitCode, dirs, source, format, pdfFiles, notPv>>

(***************************************************************************)
(* s3-upload: S3Uploader.                                                  *)
(***************************************************************************)
\* options.localPath: "pdfs"
localPath == <<"p", "d", "f", "s">>

\* "tuning"
Tuning == <<"t", "u", "n", "i", "n", "g">>

ManualPdf == <<"m", "a", "n", "u", "a", "l", ".", "p", "d", "f">>
CoverPng == <<"c", "o", "v", "e", "r", ".", "p", "n", "g">>

\* "X.PDF", "b.txt", "cover.png", "manual.pdf"
UploadFilePool ==
  << <<"X", ".", "P", "D", "F">>, <<"b", ".", "t", "x", "t">>, CoverPng, ManualPdf >>

FileEntry(name) == [name |-> name, kind |-> "file", entries |-> <<>>]
DirEntry(name, entries) == [name |-> name, kind |-> "dir", entries |-> entries]

\* what a subdirectory may hold: files only
SubListings ==
  { [i \in DOMAIN l |-> FileEntry(l[i])] :
      l \in Listings(UploadFilePool, 1, MaxEntries) }

\* what the root may hold, in listing order: the files of the pool and the
\* directories "a" and "b"
RootSlots ==
  << FileEntry(UploadFilePool[1]), DirEntry(<<"a">>, <<>>), DirEntry(<<"b">>, <<>>),
     FileEntry(UploadFilePool[2]), FileEntry(UploadFilePool[3]),
     FileEntry(UploadFilePool[4]) >>

RECURSIVE TreeListings(_, _)
TreeListings(from, n) ==
  IF n = 0 \/ from > Len(RootSlots) THEN {<<>>}
  ELSE TreeListings(from + 1, n) \cup
       { <<e>> \o l :
           e \in IF RootSlots[from].kind = "file"
                 THEN {RootSlots[from]}
                 ELSE {DirEntry(RootSlots[from].name, sub) : sub \in SubListings},
           l \in TreeListings(from + 1, n - 1) }

\* new Set(['.pdf', '.jpg', '.jpeg', '.png', '.gif', '.webp'])
validExtensions ==
  { DotPdf, <<".", "j", "p", "g">>, DotJpeg, <<".", "p", "n", "g">>,
    <<".", "g", "i", "f">>, <<".", "w", "e", "b", "p">> }

\* getMimeType: the table, and application/octet-stream for any other extension
getMimeType(filePath) ==
  LET ext == toLowerCase(extname(pathBasename(filePath))) IN
  CASE ext = DotPdf -> "application/pdf"
    [] ext \in {<<".", "j", "p", "g">>, DotJpeg} -> "image/jpeg"
    [] ext = <<".", "p", "n", "g">> -> "image/png"
    [] ext = <<".", "g", "i", "f">> -> "image/gif"
    [] ext = <<".", "w", "e", "b", "p">> -> "image/webp"
    [] OTHER -> "application/octet-stream"

\* getS3Key with the file name lowercased along with the extension
getS3KeyLowercased(fileName, category) ==
  LET isPdf == toLowerCase(extname(fileName)) = DotPdf
      subfolder == IF isPdf THEN Documents ELSE Images
  IN category \o <<"/">> \o subfolder \o <<"/">> \o toLowerCase(fileName)

\* getS3Key: `${category}/${subfolder}/${fileName}`
getS3Key(fileName, category) ==
  LET ext == toLowerCase(extname(fileName))
      isPdf == ext = DotPdf
      subfolder == IF isPdf THEN Documents ELSE Images
  IN category \o <<"/">> \o subfolder \o <<"/">> \o fileName

\* a walk that does not go into directories
walkDirectoryRootOnly(dirPath, basePath, entries) ==
  LET kept == SelectSeq(entries,
                LAMBDA e : e.kind = "file" /\
                           toLowerCase(extname(e.name)) \in validExtensions)
  IN [k \in DOMAIN kept |->
        [ fullPath |-> pathJoin(dirPath, kept[k].name),
          relativePath |-> pathJoin(pathRelative(basePath, dirPath), kept[k].name) ]]

\* walkDirectory: the listed entries in order, a directory's files in its
\* place, a file kept when its lowercased extension is a valid one
RECURSIVE walkDirectory(_, _, _)
walkDirectory(dirPath, basePath, entries) ==
  IF entries = <<>> THEN <<>>
  ELSE LET entry == Head(entries)
           fullPath == pathJoin(dirPath, entry.name)
           found ==
             IF entry.kind = "dir"
             THEN walkDirectory(fullPath, basePath, entry.entries)
             ELSE IF entry.kind = "file" /\
                     toLowerCase(extname(entry.name)) \in validExtensions
                  THEN << [ fullPath |-> fullPath,
                            relativePath |->
                              pathJoin(pathRelative(basePath, dirPath), entry.name) ] >>
                  ELSE <<>>
       IN found \o walkDirectory(dirPath, basePath, Tail(entries))

\* uploadFile's locals for the file the loop stands at
upFileName == pathBasename(files[ui].fullPath)
upCategory == IF defaultCategory # <<>> THEN defaultCategory ELSE Misc
upS3Key == getS3Key(upFileName, upCategory)

\* uploadAll's catch: log and re-throw
upReject ==
  /\ result' = "rejected"
  /\ pc' = "done"

\* upCatch with the error swallowed: the loop goes on with the next file
upCatchContinues ==
  /\ log' = log \cup {LogEntry("error", "Failed to upload", files[ui].fullPath)}
  /\ ui' = ui + 1
  /\ pc' = "loop"
  /\ UNCHANGED result

\* uploadFile's catch, which logs the file and re-throws, and uploadAll's
\* catch, which the error reaches next
upCatch ==
  /\ log' = log \cup
       { LogEntry("error", "Failed to upload", files[ui].fullPath),
         LogEntry("error", "Error during upload process", <<>>) }
  /\ upReject
  /\ UNCHANGED ui

\* upDryRun with nothing logged
upDryRunSilent ==
  /\ ui' = ui + 1
  /\ UNCHANGED <<result, pc, reads, log>>

\* uploadFile in a dry run: log the key and return
upDryRun ==
  /\ log' = log \cup {LogEntry("info", "[DRY RUN] Would upload", upS3Key)}
  /\ ui' = ui + 1
  /\ UNCHANGED <<result, pc, reads>>

\* what uploadAll logs before it walks
upStartLog ==
  {LogEntry("info", "Starting upload", localPath)} \cup
  (IF dryRun THEN {LogEntry("info", "DRY RUN MODE", <<>>)} ELSE {})

\* const files = await this.walkDirectory(...) and the early return
UpWalkDirectory ==
  /\ cmd = S3Upload /\ pc = "start"
  /\ \/ LET found == walkDirectory(localPath, localPath, tree) IN
        /\ files' = found
        /\ IF Len(found) = 0
           THEN /\ log' = log \cup upStartLog \cup
                          {LogEntry("info", "No valid files found", <<>>)}
                /\ result' = "resolved"
                /\ pc' = "done"
           ELSE /\ log' = log \cup upStartLog \cup
                          {LogEntry("info", "Found files to upload", Len(found))}
                /\ pc' = "loop"
                /\ UNCHANGED result
     \/ /\ log' = log \cup upStartLog \cup
             { LogEntry("error", "Error walking directory", localPath),
               LogEntry("error", "Error during upload process", <<>>) }
        /\ upReject
        /\ UNCHANGED files
  /\ UNCHANGED <<cmd, exitCode, disk, dirs, tree, dryRun, defaultCategory, ui,
                 reads, puts, bucket, notUp>>

\* the head of the for loop: uploadFile is called for the next file and, in a
\* dry run, logs the key and returns, otherwise awaits readFile; after the
\* last file uploadAll logs the count and returns
UpLoop ==
  /\ cmd = S3Upload /\ pc = "loop"
  /\ IF ui > Len(files)
     THEN /\ log' = log \cup {LogEntry("info", "Upload completed", Len(files))}
          /\ result' = "resolved"
          /\ pc' = "done"
          /\ UNCHANGED <<ui, reads>>
     ELSE IF dryRun
          THEN upDryRun
          ELSE /\ reads' = Append(reads, files[ui].fullPath)
               /\ pc' = "readFile"
               /\ UNCHANGED <<result, log, ui>>
  /\ UNCHANGED <<cmd, exitCode, disk, dirs, tree, dryRun, defaultCategory, files,
                 puts, bucket, notUp>>

\* const fileContent = await readFile(localFilePath); then the PutObject
\* request is built and sent
UpReadFile ==
  /\ cmd = S3Upload /\ pc = "readFile"
  /\ \/ /\ puts' = Append(puts, [ Key |-> upS3Key,
                                  Body |-> files[ui].fullPath,
                                  ContentType |-> getMimeType(files[ui].fullPath) ])
        /\ pc' = "send"
        /\ UNCHANGED <<result, log, ui>>
     \/ /\ upCatch
        /\ UNCHANGED puts
  /\ UNCHANGED <<cmd, exitCode, disk, dirs, tree, dryRun, defaultCategory, files,
                 reads, bucket, notUp>>

\* await this.s3Client.send(command)
UpSend ==
  /\ cmd = S3Upload /\ pc = "send"
  /\ \/ /\ bucket' = writeFile(bucket, upS3Key, puts[Len(puts)])
        /\ log' = log \cup {LogEntry("info", "Uploaded", upS3Key)}
        /\ ui' = ui + 1
        /\ pc' = "loop"
        /\ UNCHANGED result
     \/ /\ upCatch
        /\ UNCHANGED bucket
  /\ UNCHANGED <<cmd, exitCode, disk, dirs, tree, dryRun, defaultCategory, files,
                 reads, puts, notUp>>

(***************************************************************************)
(* s3-download: S3Downloader.                                              *)
(***************************************************************************)
\* config.localPath: "downloads"
dnLocalPath == <<"d", "o", "w", "n", "l", "o", "a", "d", "s">>

\* const batchSize = 5
batchSize == 5

\* continuationToken undefined
NoToken == 0

\* the keys under the prefix in the order S3 lists them: "a", "b", "d/e",
\* "d/f", "g", "h/", "h/i", "j"
KeyPool ==
  << <<"a">>, <<"b">>, <<"d", "/", "e">>, <<"d", "/", "f">>, <<"g">>,
     <<"h", "/">>, <<"h", "/", "i">>, <<"j">> >>

Min(a, b) == IF a < b THEN a ELSE b

\* what S3 answers a ListObjectsV2 request: the keys from the token's place
\* on, at most MaxKeys of them, and a NextContinuationToken when keys remain
s3ListObjectsV2(token, pageSize) ==
  LET first == IF token = NoToken THEN 1 ELSE token
      last == Min(first + pageSize - 1, Len(bucketKeys))
  IN [ Contents |-> SubSeq(bucketKeys, first, last),
       NextContinuationToken |->
         IF last < Len(bucketKeys) THEN last + 1 ELSE NoToken ]

\* a test that takes no key for a directory marker
isDirectoryNever(key) == FALSE

\* isDirectory: key.endsWith('/')
isDirectory(key) == endsWith(key, <<"/">>)

\* path.join(this.config.localPath, key)
dnFilePath(key) == pathJoin(dnLocalPath, key)

\* downloadAll's catch: log and re-throw
dnReject ==
  /\ result' = "rejected"
  /\ pc' = "done"

\* a listing that follows no continuation token
dnNextTokenDropped(response) == NoToken

\* continuationToken = response.NextContinuationToken
dnNextToken(response) == response.NextContinuationToken

\* one turn of listObjects' do-while: a request is sent with the token of the
\* response before, its keys are appended, and with no token in the response
\* the list is returned to downloadAll, which returns at once when it is empty
DnListObjects ==
  /\ cmd = S3Download /\ pc = "list"
  /\ \/ LET response == s3ListObjectsV2(continuationToken, maxKeys)
            listed == objects \o response.Contents
        IN /\ listRequests' = Append(listRequests, continuationToken)
           /\ objects' = listed
           /\ continuationToken' = dnNextToken(response)
           /\ IF dnNextToken(response) # NoToken
              THEN UNCHANGED <<pc, result, log, dl>>
              ELSE IF Len(listed) = 0
                   THEN /\ log' = log \cup
                             { LogEntry("info", "Found objects", 0),
                               LogEntry("warn", "No files found to download", <<>>) }
                        /\ result' = "resolved"
                        /\ pc' = "done"
                        /\ UNCHANGED dl
                   ELSE /\ log' = log \cup
                             { LogEntry("info", "Found objects", Len(listed)),
                               LogEntry("info", "Starting download", Len(listed)) }
                        /\ dl' = [k \in DOMAIN listed |->
                                    [ key |-> listed[k], status |-> "idle", calls |-> 0,
                                      gets |-> 0, unexpectedBody |-> FALSE ]]
                        /\ pc' = "batches"
                        /\ UNCHANGED result
     \/ /\ listRequests' = Append(listRequests, continuationToken)
        /\ log' = log \cup
             { LogEntry("error", "Error listing S3 objects", <<>>),
               LogEntry("error", "Error during download process", <<>>) }
        /\ dnReject
        /\ UNCHANGED <<objects, continuationToken, dl>>
  /\ UNCHANGED <<cmd, exitCode, disk, dirs, bucketKeys, maxKeys, bi, notDn>>

\* downloadFile up to its first await: a directory key is skipped (the promise
\* resolves), any other key awaits the mkdir of its local directory
dnStart(d) ==
  IF isDirectory(d.key)
  THEN [d EXCEPT !.status = "skipped", !.calls = @ + 1]
  ELSE [d EXCEPT !.status = "mkdir", !.calls = @ + 1]

\* a loop that does not wait for the batch it started
dnBatchNotAwaited == TRUE

\* await Promise.all(batch.map(...)) has returned: every download started so
\* far has resolved
dnBatchAwaited ==
  \A k \in DOMAIN dl : k <= bi => dl[k].status \in {"skipped", "done"}

\* the batch loop: with every download started so far settled, the next
\* batchSize objects are started together, or downloadAll returns
DnBatch ==
  /\ cmd = S3Download /\ pc = "batches"
  /\ dnBatchAwaited
  /\ IF bi < Len(objects)
     THEN /\ dl' = [k \in DOMAIN dl |->
                      IF bi < k /\ k <= bi + batchSize THEN dnStart(dl[k]) ELSE dl[k]]
          /\ bi' = bi + batchSize
          /\ log' = log \cup
               { LogEntry("debug", "Skipping directory", dl[k].key) :
                   k \in {j \in DOMAIN dl :
                            bi < j /\ j <= bi + batchSize /\ isDirectory(dl[j].key)} }
          /\ UNCHANGED <<pc, result>>
     ELSE /\ log' = log \cup {LogEntry("info", "Download completed successfully", <<>>)}
          /\ result' = "resolved"
          /\ pc' = "done"
          /\ UNCHANGED <<dl, bi>>
  /\ UNCHANGED <<cmd, exitCode, disk, dirs, bucketKeys, maxKeys, objects,
                 continuationToken, listRequests, notDn>>

\* a catch that logs the key and lets the batch go on
dnCatchContinues(k) ==
  /\ dl' = [dl EXCEPT ![k].status = "failed"]
  /\ log' = log \cup {LogEntry("error", "Error downloading file", dl[k].key)}
  /\ UNCHANGED <<result, pc>>

\* downloadFile's catch for object k, which logs the key and re-throws; the
\* first rejection of a batch rejects its Promise.all and so downloadAll
dnCatch(k) ==
  /\ dl' = [dl EXCEPT ![k].status = "failed"]
  /\ IF result = "pending"
     THEN /\ log' = log \cup
               { LogEntry("error", "Error downloading file", dl[k].key),
                 LogEntry("error", "Error during download process", <<>>) }
          /\ dnReject
     ELSE /\ log' = log \cup {LogEntry("error", "Error downloading file", dl[k].key)}
          /\ UNCHANGED <<result, pc>>

\* await this.ensureDirectoryExists(path.dirname(filePath)); then the
\* GetObject request is sent
DnMkdir(k) ==
  /\ cmd = S3Download /\ exitCode = NoExit
  /\ k \in DOMAIN dl /\ dl[k].status = "mkdir"
  /\ \/ /\ dirs' = dirs \cup {pathDirname(dnFilePath(dl[k].key))}
        /\ log' = log \cup {LogEntry("info", "Downloading", dl[k].key)}
        /\ dl' = [dl EXCEPT ![k].status = "send", ![k].gets = @ + 1]
        /\ UNCHANGED <<result, pc>>
     \/ /\ dnCatch(k)
        /\ UNCHANGED dirs
  /\ UNCHANGED <<cmd, exitCode, disk, bucketKeys, maxKeys, objects,
                 continuationToken, listRequests, bi, notDn>>

\* throw new Error('Unexpected response body type'), caught by downloadFile's
\* catch: as dnCatch(k), with the unexpected body on record
dnThrow(k) ==
  /\ dl' = [dl EXCEPT ![k].status = "failed", ![k].unexpectedBody = TRUE]
  /\ IF result = "pending"
     THEN /\ log' = log \cup
               { LogEntry("error", "Error downloading file", dl[k].key),
                 LogEntry("error", "Error during download process", <<>>) }
          /\ dnReject
     ELSE /\ log' = log \cup {LogEntry("error", "Error downloading file", dl[k].key)}
          /\ UNCHANGED <<result, pc>>

\* a test that takes any body for a stream
dnBodyIsAnything(body) == TRUE

\* response.Body instanceof Readable
dnBodyIsReadable(body) == body = "Readable"

\* const response = await this.s3Client.send(command): a response whose body
\* is a Readable, a response whose body is not, which throws 'Unexpected
\* response body type', or a rejection
DnSend(k) ==
  /\ cmd = S3Download /\ exitCode = NoExit
  /\ k \in DOMAIN dl /\ dl[k].status = "send"
  /\ \/ \E body \in {"Readable", "other"} :
          IF dnBodyIsReadable(body)
          THEN /\ dl' = [dl EXCEPT ![k].status = "stream",
                                   ![k].unexpectedBody = (body # "Readable")]
               /\ UNCHANGED <<result, pc, log>>
          ELSE dnThrow(k)
     \/ dnCatch(k)
  /\ UNCHANGED <<cmd, exitCode, disk, dirs, bucketKeys, maxKeys, objects,
                 continuationToken, listRequests, bi, notDn>>

\* for await (const chunk of fileStream): the body is read to its end and
\* writeFile is called on the whole of it, or the stream fails
DnStream(k) ==
  /\ cmd = S3Download /\ exitCode = NoExit
  /\ k \in DOMAIN dl /\ dl[k].status = "stream"
  /\ \/ /\ dl' = [dl EXCEPT ![k].status = "write"]
        /\ UNCHANGED <<result, pc, log>>
     \/ dnCatch(k)
  /\ UNCHANGED <<cmd, exitCode, disk, dirs, bucketKeys, maxKeys, objects,
                 continuationToken, listRequests, bi, notDn>>

\* await writeFile(filePath, Buffer.concat(chunks))
DnWriteFile(k) ==
  /\ cmd = S3Download /\ exitCode = NoExit
  /\ k \in DOMAIN dl /\ dl[k].status = "write"
  /\ \/ /\ disk' = writeFile(disk, dnFilePath(dl[k].key), <<"object", dl[k].key>>)
        /\ log' = log \cup {LogEntry("info", "Successfully downloaded", dl[k].key)}
        /\ dl' = [dl EXCEPT ![k].status = "done"]
        /\ UNCHANGED <<result, pc>>
     \/ /\ dnCatch(k)
        /\ UNCHANGED disk
  /\ UNCHANGED <<cmd, exitCode, dirs, bucketKeys, maxKeys, objects,
                 continuationToken, listRequests, bi, notDn>>

(***************************************************************************)
(* The CLI: each command's action awaits the method and exits.             *)
(***************************************************************************)
\* an action that exits 0 whatever the awaited method did
cliExitsZero ==
  /\ exitCode = NoExit /\ result # "pending"
  /\ exitCode' = 0
  /\ UNCHANGED <<cmd, pc, result, log, disk, dirs, mdVars, pvVars, upVars, dnVars>>

\* process.exit(0) after the awaited method resolved, process.exit(1) in the
\* catch after it rejected
CliExit ==
  /\ exitCode = NoExit /\ result # "pending"
  /\ exitCode' = IF result = "resolved" THEN 0 ELSE 1
  /\ UNCHANGED <<cmd, pc, result, log, disk, dirs, mdVars, pvVars, upVars, dnVars>>

(***************************************************************************)
(* Specifications.                                                         *)
(***************************************************************************)
InitCommon ==
  /\ pc = "start"
  /\ result = "pending"
  /\ exitCode = NoExit
  /\ log = {}
  /\ disk = << >>
  /\ dirs = {}

MdIdle ==
  /\ staging = << >>
  /\ procs = << >>

PvIdle ==
  /\ source = << >>
  /\ format = << >>
  /\ pdfFiles = << >>
  /\ idx = 1
  /\ attempts = << >>

UpIdle ==
  /\ tree = << >>
  /\ dryRun = FALSE
  /\ defaultCategory = << >>
  /\ files = << >>
  /\ ui = 1
  /\ reads = << >>
  /\ puts = << >>
  /\ bucket = << >>

DnIdle ==
  /\ bucketKeys = << >>
  /\ maxKeys = 1
  /\ objects = << >>
  /\ continuationToken = NoToken
  /\ listRequests = << >>
  /\ bi = 0
  /\ dl = << >>

\* the staging directory holds one generated name, or some names of StagingPool
InitMarkdown ==
  /\ cmd = GenerateMarkdown
  /\ InitCommon
  /\ staging \in {<<n>> : n \in GeneratedNames} \cup
                 Listings(StagingPool, 1, MaxStaging)
  /\ procs = << >>
  /\ PvIdle
  /\ UpIdle
  /\ DnIdle

NextMarkdown ==
  \/ MdEnsureDirectoryExists
  \/ MdReaddirAndMap
  \/ \E i \in DOMAIN procs : MdWriteFileDone(i)
  \/ \E i \in DOMAIN procs : MdWriteFileFail(i)
  \/ CliExit

SpecMarkdown == InitMarkdown /\ [][NextMarkdown]_vars

\* the source directory holds some names of SourcePool
InitPreviews ==
  /\ cmd = GeneratePreviews
  /\ InitCommon
  /\ MdIdle
  /\ source \in Listings(SourcePool, 1, MaxSource)
  /\ format \in {Jpeg, Png}
  /\ pdfFiles = << >>
  /\ idx = 1
  /\ attempts = << >>
  /\ UpIdle
  /\ DnIdle

NextPreviews ==
  \/ PvEnsureOutputDirectoryExists
  \/ PvReaddir
  \/ PvLoop
  \/ PvStoreAsImage
  \/ PvRename
  \/ CliExit

SpecPreviews == InitPreviews /\ [][NextPreviews]_vars

\* options.localPath holds a tree of at most two levels; the category is the
\* default or given, the run is dry or not
InitUpload ==
  /\ cmd = S3Upload
  /\ InitCommon
  /\ MdIdle
  /\ PvIdle
  /\ tree \in TreeListings(1, MaxEntries)
  /\ dryRun \in BOOLEAN
  /\ defaultCategory \in {<<>>, Tuning}
  /\ files = << >>
  /\ ui = 1
  /\ reads = << >>
  /\ puts = << >>
  /\ bucket = << >>
  /\ DnIdle

NextUpload ==
  \/ UpWalkDirectory
  \/ UpLoop
  \/ UpReadFile
  \/ UpSend
  \/ CliExit

SpecUpload == InitUpload /\ [][NextUpload]_vars

\* the bucket holds the first keys of KeyPool; downloadAll starts by calling
\* listObjects
InitDownload ==
  /\ cmd = S3Download
  /\ pc = "list"
  /\ result = "pending"
  /\ exitCode = NoExit
  /\ log = {}
  /\ disk = << >>
  /\ dirs = {}
  /\ MdIdle
  /\ PvIdle
  /\ UpIdle
  /\ bucketKeys \in {SubSeq(KeyPool, 1, n) : n \in 0 .. Min(NumKeys, Len(KeyPool))}
  /\ maxKeys \in 1 .. MaxPage
  /\ objects = << >>
  /\ continuationToken = NoToken
  /\ listRequests = << >>
  /\ bi = 0
  /\ dl = << >>

NextDownload ==
  \/ DnListObjects
  \/ DnBatch
  \/ \E k \in DOMAIN dl : DnMkdir(k)
  \/ \E k \in DOMAIN dl : DnSend(k)
  \/ \E k \in DOMAIN dl : DnStream(k)
  \/ \E k \in DOMAIN dl : DnWriteFile(k)
  \/ CliExit

SpecDownload == InitDownload /\ [][NextDownload]_vars

\* program.parse(process.argv): one of the four commands is run
Init == InitMarkdown \/ InitPreviews \/ InitUpload \/ InitDownload

Next == NextMarkdown \/ NextPreviews \/ NextUpload \/ NextDownload

Spec == Init /\ [][Next]_vars

(***************************************************************************)
(* Properties.                                                             *)
(***************************************************************************)
\* the slug the code derived for a processFile call: the value of the front
\* matter's slug key
slugOf(proc) == proc.contents[2][2]

\* the file name up to its last dot
stemOf(filename) ==
  LET dots == {k \in DOMAIN filename : filename[k] = "."} IN
  IF dots = {} THEN <<>>
  ELSE SubSeq(filename, 1, (CHOOSE k \in dots : \A j \in dots : j <= k) - 1)

\* the stem without its leading and trailing whitespace
trimmedStemOf(filename) ==
  LET stem == stemOf(filename)
      ink == {k \in DOMAIN stem : stem[k] \notin Whitespace}
  IN IF ink = {} THEN <<>>
     ELSE SubSeq(stem, CHOOSE k \in ink : \A j \in ink : k <= j,
                       CHOOSE k \in ink : \A j \in ink : j <= k)

\* the slug as the specification words it: of the trimmed stem, the characters
\* of [A-Za-z0-9-] stay, the first character of each whitespace run becomes a
\* hyphen, everything else goes
expectedSlug(filename) ==
  LET t == trimmedStemOf(filename)
      stays(k) ==
        \/ t[k] \in Letters \cup Digits \cup {"-"}
        \/ t[k] \in Whitespace /\ (k = 1 \/ t[k - 1] \notin Whitespace)
      ks == SelectSeq([k \in 1 .. Len(t) |-> k], stays)
  IN [j \in 1 .. Len(ks) |-> IF t[ks[j]] \in Whitespace THEN "-" ELSE t[ks[j]]]

\* C9: for every file name processFile derives metadata for, the slug holds
\* only characters of [A-Za-z0-9-], is the extension-stripped trimmed name with
\* each whitespace run replaced by one hyphen and every other disallowed
\* character removed, is not empty when the name holds a letter or digit
\* before its extension, and "ADK 1152 v2.pdf" gives "ADK-1152-v2"
SlugIsSanitizedStem ==
  \A i \in DOMAIN procs :
    procs[i].status # "skipped" =>
      LET slug == slugOf(procs[i])
          name == procs[i].filename
      IN /\ \A k \in DOMAIN slug : slug[k] \in Letters \cup Digits \cup {"-"}
         /\ slug = expectedSlug(name)
         /\ (\E k \in DOMAIN stemOf(name) : stemOf(name)[k] \in Letters \cup Digits)
              => slug # <<>>
         /\ name = AdkV2Pdf =>
              slug = <<"A", "D", "K", "-", "1", "1", "5", "2", "-", "v", "2">>

\* C9 witness: a markdown file was written for a name whose stem holds a run
\* of two whitespace characters between two other characters, so that the slug
\* is one character shorter than the trimmed stem
SlugWitness ==
  \E i \in DOMAIN procs :
    /\ procs[i].status = "written"
    /\ LET t == trimmedStemOf(procs[i].filename) IN
       /\ \E k \in 2 .. Len(t) - 1 :
            t[k] \in Whitespace /\ t[k - 1] \in Whitespace
       /\ Len(slugOf(procs[i])) = Len(t) - 1
       /\ procs[i].outputPath \in DOMAIN disk

\* C10: a file name whose slug is empty after sanitization makes the metadata
\* derivation fail: no write is issued for it and no markdown file is written
EmptySlugIsRejected ==
  \A i \in DOMAIN procs :
    (procs[i].status # "skipped" /\ expectedSlug(procs[i].filename) = <<>>) =>
      /\ procs[i].status \notin {"writing", "written"}
      /\ procs[i].outputPath \notin DOMAIN disk

\* the image and download values of the front matter of a processFile call
imageOfProc(proc) == proc.contents[5][2]
downloadOfProc(proc) == proc.contents[6][2]

\* s with a plus sign in the place of each space and every other character
\* as it is
plusForEachSpace(s) == [k \in DOMAIN s |-> IF s[k] = " " THEN "+" ELSE s[k]]

\* C11: the image URL is base/prefix/images/title.jpeg and the download URL
\* base/prefix/documents/filename, the title and the file name with each space
\* replaced by a plus sign and every other character unchanged
UrlsSubstituteEachSpace ==
  \A i \in DOMAIN procs :
    procs[i].status # "skipped" =>
      /\ imageOfProc(procs[i]) =
           awsLocation \o <<"/">> \o prefix \o <<"/">> \o Images \o <<"/">> \o
           plusForEachSpace(procs[i].contents[1][2]) \o DotJpeg
      /\ downloadOfProc(procs[i]) =
           awsLocation \o <<"/">> \o prefix \o <<"/">> \o Documents \o <<"/">> \o
           plusForEachSpace(procs[i].filename)

\* "ADK1152"
Adk1152 == <<"A", "D", "K", "1", "1", "5", "2">>

\* the name ends in .pdf, whatever its case
isPdfName(name) ==
  /\ Len(name) >= 4
  /\ toLowerCase(SubSeq(name, Len(name) - 3, Len(name))) = DotPdf

\* C15: every PDF entry of the source directory gets the file slug.md in
\* output/prefix, a directory made before any write is issued; a run that
\* resolves has written it; no other entry gets a file and nothing else is
\* written; the front matter has the keys title, slug, description, code,
\* image, download in this order; ADK1152.pdf gives ADK1152.md with the slug
\* ADK1152 and the download URL base/mini/documents/ADK1152.pdf
MarkdownWritesOneFilePerPdf ==
  /\ (procs # <<>> \/ disk # <<>>) => outputDir \in dirs
  /\ \A i \in DOMAIN procs :
       LET p == procs[i] IN
       /\ p.status = "skipped" <=> ~isPdfName(p.filename)
       /\ p.status # "skipped" =>
            /\ p.outputPath =
                 outputBasePath \o <<"/">> \o prefix \o <<"/">> \o slugOf(p) \o DotMd
            /\ [k \in DOMAIN p.contents |-> p.contents[k][1]] =
                 <<"title", "slug", "description", "code", "image", "download">>
            /\ p.status = "written" => p.outputPath \in DOMAIN disk
            /\ (cmd = GenerateMarkdown /\ result = "resolved") => p.status = "written"
       /\ p.filename = Adk1152Pdf =>
            /\ pathBasename(p.outputPath) = Adk1152 \o DotMd
            /\ slugOf(p) = Adk1152
            /\ downloadOfProc(p) =
                 awsLocation \o <<"/">> \o prefix \o <<"/">> \o Documents \o <<"/">> \o
                 Adk1152Pdf
  /\ cmd = GenerateMarkdown =>
       \A path \in DOMAIN disk :
         \E i \in DOMAIN procs :
           /\ procs[i].status = "written" /\ procs[i].outputPath = path
           /\ disk[path] = procs[i].contents

\* C15 witness: a directory of b.txt and ADK1152.pdf was processed: the run
\* resolved and ADK1152.md is the one file written
MarkdownWitness ==
  /\ cmd = GenerateMarkdown /\ result = "resolved"
  /\ staging = <<StagingPool[5], Adk1152Pdf>>
  /\ DOMAIN disk = {outputDir \o <<"/">> \o Adk1152 \o DotMd}
  /\ outputDir \in dirs

\* the entries whose processFile has issued its writeFile
mdIssued == {i \in DOMAIN procs : procs[i].status # "skipped"}

\* C21: processFile is called for every entry of the directory in one go, so
\* the writes of all PDF entries are issued together, however many, before
\* any is awaited; the first write to fail rejects createFilesFromDirectory;
\* the other writes are not cancelled: each can still complete while the
\* process runs, and the files written stay on disk
MarkdownFansOutUnbounded ==
  /\ [](cmd = GenerateMarkdown =>
         /\ procs # <<>> =>
              /\ Len(procs) = Len(staging)
              /\ mdIssued = {i \in DOMAIN staging : isPdfName(staging[i])}
         /\ (\E i \in DOMAIN procs : procs[i].status = "failed") => result = "rejected"
         /\ \A i \in DOMAIN procs :
              (procs[i].status = "writing" /\ exitCode = NoExit) =>
                (ENABLED MdWriteFileDone(i) /\ ENABLED MdWriteFileFail(i))
         /\ \A i \in DOMAIN procs :
              procs[i].status = "written" => procs[i].outputPath \in DOMAIN disk)
  /\ [][/\ (procs = <<>> /\ procs' # <<>>) =>
             \A i \in DOMAIN procs' : procs'[i].status \in {"skipped", "writing"}
        /\ (cmd = GenerateMarkdown /\ procs # <<>> /\
            result = "pending" /\ result' = "rejected") =>
             /\ \A j \in DOMAIN procs : procs[j].status # "failed"
             /\ \E i \in DOMAIN procs :
                  procs[i].status = "writing" /\ procs'[i].status = "failed"
        /\ \A path \in DOMAIN disk : path \in DOMAIN disk'
       ]_vars

\* C21 witness: of two PDF entries the write of the first failed and the run
\* rejected and exited 1, with the file of the second on disk
FanOutWitness ==
  /\ cmd = GenerateMarkdown /\ Len(procs) = 2
  /\ procs[1].status = "failed" /\ procs[2].status = "written"
  /\ procs[1].outputPath # procs[2].outputPath
  /\ result = "rejected" /\ exitCode = 1
  /\ DOMAIN disk = {procs[2].outputPath}

(***************************************************************************)
(* Properties of generate-previews.                                        *)
(***************************************************************************)
attemptsWith(status) == {k \in DOMAIN attempts : attempts[k].status = status}

\* the items a log message was given for
loggedItems(msg) == {e.item : e \in {l \in log : l.msg = msg}}

\* another PDF of the batch has this file's output path as the temporary path
\* pdf2pic saves its page 1 under
outputIsSomeTempPath(file) ==
  \E j \in DOMAIN pdfFiles : tempFilePath(pdfFiles[j]) = outputFilePath(file)

hasItsImage(file) ==
  /\ outputFilePath(file) \in DOMAIN disk
  /\ disk[outputFilePath(file)] = imageOf(file)

withoutPdfExtension(file) == SubSeq(file, 1, Len(file) - 4)

\* C16: once the conversion of an accepted PDF file has succeeded, its image
\* is in the output directory under the file's name with the PDF extension
\* swapped for the format, and no file with the page-number name
\* base.1.format is left of it
PreviewNamedAfterSource ==
  \A k \in attemptsWith("done") :
    LET base == withoutPdfExtension(attempts[k].file) IN
    k = Len(attempts) =>
      /\ pathJoin(output, base \o <<".">> \o format) \in DOMAIN disk
      /\ pathJoin(output, base \o <<".", "1", ".">> \o format) \notin DOMAIN disk

(***************************************************************************)
(* Properties of s3-upload.                                                *)
(***************************************************************************)
\* the last characters of a name, lowercased
lowerTail(name, n) ==
  toLowerCase(SubSeq(name, Len(name) - n + 1, Len(name)))

\* the key the specification gives a walked file: category, then documents
\* for a .pdf name and images for any other, then the name as it is
expectedKey(file) ==
  LET name == pathBasename(file.relativePath)
      category == IF defaultCategory = <<>> THEN Misc ELSE defaultCategory
  IN category \o <<"/">> \o
     (IF lowerTail(name, 4) = DotPdf THEN Documents ELSE Images) \o <<"/">> \o name

\* C3: files are read and put one at a time in walk order, and when
\* uploadFile fails for the file the loop stands at, uploadAll rejects and no
\* later file is ever read or put
UploadAbortsOnFirstFailure ==
  /\ Len(puts) <= Len(reads) /\ Len(reads) <= Len(puts) + 1
  /\ \A k \in DOMAIN reads : k <= Len(files) /\ reads[k] = files[k].fullPath
  /\ \A k \in DOMAIN puts : puts[k].Body = files[k].fullPath
  /\ cmd = S3Upload /\ ~dryRun /\ pc # "start" =>
       /\ Len(reads) <= ui
       /\ Cardinality(loggedItems("Uploaded")) <= ui - 1
       /\ Len(reads) = ui => pc \in {"readFile", "send", "done"}
  /\ \A e \in log : e.msg = "Failed to upload" =>
       /\ result = "rejected"
       /\ ui \in DOMAIN files /\ e.item = files[ui].fullPath
       /\ Len(reads) = ui

\* C3 witness: of three walked files the second was read and put, the put
\* failed, uploadAll rejected and the process exited: the third was never read
UploadAbortWitness ==
  /\ result = "rejected" /\ exitCode = 1
  /\ Len(files) = 3 /\ ui = 2
  /\ Len(reads) = 2 /\ Len(puts) = 2
  /\ Cardinality(DOMAIN bucket) = 1

\* the walk of uploadAll has returned its files
walkReturned == cmd = S3Upload /\ pc # "start" /\ loggedItems("Error walking directory") = {}

DestinationsAreDisjoint ==
  /\ \A i, j \in DOMAIN puts :
       puts[i].Body # puts[j].Body => puts[i].Key # puts[j].Key
  /\ \A i, j \in DOMAIN procs :
       (i # j /\ procs[i].status # "skipped" /\ procs[j].status # "skipped")
         => procs[i].outputPath # procs[j].outputPath

\* C8: every key put or logged is category/subfolder/filename, the category
\* being misc when none is given, the subfolder documents for a .pdf extension
\* and images for any other, the file name the walked name unchanged:
\* manual.pdf gets misc/documents/manual.pdf and cover.png misc/images/cover.png
KeyIsCategorySubfolderFilename ==
  /\ \A k \in DOMAIN puts : puts[k].Key = expectedKey(files[k])
  /\ loggedItems("[DRY RUN] Would upload") \subseteq
       {expectedKey(files[k]) : k \in DOMAIN files}
  /\ \A k \in DOMAIN puts :
       defaultCategory = <<>> =>
         /\ pathBasename(files[k].fullPath) = ManualPdf =>
              puts[k].Key = Misc \o <<"/">> \o Documents \o <<"/">> \o ManualPdf
         /\ pathBasename(files[k].fullPath) = CoverPng =>
              puts[k].Key = Misc \o <<"/">> \o Images \o <<"/">> \o CoverPng

\* C8 witness: with no category given, manual.pdf and cover.png were stored
\* under misc/documents/manual.pdf and misc/images/cover.png, and a file of a
\* subdirectory with an upper-case extension was stored as well
KeyWitness ==
  /\ defaultCategory = <<>>
  /\ Misc \o <<"/">> \o Documents \o <<"/">> \o ManualPdf \in DOMAIN bucket
  /\ Misc \o <<"/">> \o Images \o <<"/">> \o CoverPng \in DOMAIN bucket
  /\ \E k \in DOMAIN puts :
       /\ files[k].relativePath # pathBasename(files[k].relativePath)
       /\ extname(pathBasename(files[k].fullPath)) = <<".", "P", "D", "F">>
       /\ puts[k].Key \in DOMAIN bucket

\* a file name ends in an accepted extension, whatever its case
hasAcceptedExtension(name) ==
  \E ext \in validExtensions :
    /\ Len(name) > Len(ext)
    /\ lowerTail(name, Len(ext)) = ext

\* the pairs the specification expects of a walk: one for each regular file
\* with an accepted extension, in the root or in a directory of it
expectedPairs ==
  { [ fullPath |-> localPath \o <<"/">> \o tree[i].name,
      relativePath |-> tree[i].name ] :
      i \in {j \in DOMAIN tree :
               tree[j].kind = "file" /\ hasAcceptedExtension(tree[j].name)} }
  \cup
  UNION { { [ fullPath |-> localPath \o <<"/">> \o tree[i].name \o <<"/">> \o
                           tree[i].entries[f].name,
              relativePath |-> tree[i].name \o <<"/">> \o tree[i].entries[f].name ] :
              f \in {g \in DOMAIN tree[i].entries :
                       hasAcceptedExtension(tree[i].entries[g].name)} } :
          i \in {j \in DOMAIN tree : tree[j].kind = "dir"} }

\* C14: the walk returns one pair of full path and path relative to the root
\* for every regular file under the root with an accepted extension and
\* nothing else; a file with another extension is skipped without an error:
\* a directory of b.txt and manual.pdf gives one item
WalkReturnsAcceptedFiles ==
  walkReturned =>
    /\ {files[k] : k \in DOMAIN files} = expectedPairs
    /\ Len(files) = Cardinality(expectedPairs)
    /\ tree = <<FileEntry(UploadFilePool[2]), FileEntry(ManualPdf)>> =>
         files = << [ fullPath |-> localPath \o <<"/">> \o ManualPdf,
                      relativePath |-> ManualPdf ] >>

\* C14 witness: the walk returned three files, one of them from a directory
\* that also holds b.txt, and the run went on to upload
WalkWitness ==
  /\ walkReturned /\ Len(files) = 3 /\ pc # "done"
  /\ \E i \in DOMAIN tree :
       /\ tree[i].kind = "dir" /\ Len(tree[i].entries) = 2
       /\ tree[i].entries[1].name = UploadFilePool[2]
       /\ \E k \in DOMAIN files :
            files[k].relativePath = tree[i].name \o <<"/">> \o tree[i].entries[2].name

\* C19: a dry run does for each file what a real run does but for the put:
\* every file uploadFile has been called for was read, a dry run as a real one
DryRunReadsEveryFile ==
  (cmd = S3Upload /\ walkReturned) =>
    /\ dryRun => puts = <<>>
    /\ \A k \in DOMAIN files :
         k < ui => (k \in DOMAIN reads /\ reads[k] = files[k].fullPath)

(***************************************************************************)
(* Properties of s3-download.                                              *)
(***************************************************************************)
\* the number of objects of the batch of object k and of the batches before
batchEnd(k) == ((k - 1) \div batchSize + 1) * batchSize

\* listObjects has returned its list to downloadAll
listed == cmd = S3Download /\ pc # "list" /\ loggedItems("Error listing S3 objects") = {}

\* the number of pages of n keys listed pageSize at a time: one at least
pagesOf(n, pageSize) ==
  IF n = 0 THEN 1 ELSE (n + pageSize - 1) \div pageSize

\* C4: when downloadFile has failed for a key, downloadAll has rejected and no
\* key of a later batch is fetched or written; no key is started before its
\* batch is
DownloadAbortsOnFirstFailure ==
  /\ \A k \in DOMAIN dl :
       k > bi => /\ dl[k].status = "idle" /\ dl[k].gets = 0
                 /\ dnFilePath(dl[k].key) \notin DOMAIN disk
  /\ \A k \in DOMAIN dl :
       dl[k].status = "failed" =>
         /\ result = "rejected"
         /\ bi = batchEnd(k)
         /\ \A j \in DOMAIN dl :
              j > batchEnd(k) =>
                /\ dl[j].status = "idle" /\ dl[j].gets = 0
                /\ dnFilePath(dl[j].key) \notin DOMAIN disk
                /\ LogEntry("info", "Downloading", dl[j].key) \notin log

\* C4 witness: of seven keys the second failed in the first batch, another
\* key of that batch was written all the same, the process exited 1 and the
\* two keys of the second batch were never started
DownloadAbortWitness ==
  /\ cmd = S3Download /\ Len(dl) = 7
  /\ dl[2].status = "failed" /\ dl[2].gets = 1
  /\ dl[3].status = "done"
  /\ result = "rejected" /\ exitCode = 1
  /\ dl[7].status = "idle" /\ dl[7].gets = 0

dnStepOrder ==
  { <<"idle", "skipped">>, <<"idle", "mkdir">>, <<"mkdir", "send">>,
    <<"send", "stream">>, <<"stream", "write">>, <<"write", "done">>,
    <<"mkdir", "failed">>, <<"send", "failed">>, <<"stream", "failed">>,
    <<"write", "failed">> }

\* C20: a key is downloaded in the order local parent directory, GetObject,
\* whole body, local file at localPath/key: the directory exists when the
\* request is sent, the request was sent when the body is read, the file is
\* there only when the write that follows the whole body has returned; a key
\* whose request or stream failed or whose body was not a stream has failed
\* and has no local file
DownloadStepsInOrder ==
  /\ [](cmd = S3Download =>
         \A k \in DOMAIN dl :
           LET d == dl[k]
               path == dnFilePath(d.key)
           IN d.key[Len(d.key)] # "/" =>
                /\ path = dnLocalPath \o <<"/">> \o d.key
                /\ d.gets > 0 => pathDirname(path) \in dirs
                /\ d.status \in {"send", "stream", "write", "done"} => d.gets = 1
                /\ d.status \in {"stream", "write", "done"} => ~d.unexpectedBody
                /\ d.unexpectedBody => d.status = "failed"
                /\ path \in DOMAIN disk <=> d.status = "done"
                /\ d.status = "done" => disk[path] = <<"object", d.key>>
                /\ d.status = "failed" => result = "rejected")
  /\ [][/\ \A k \in DOMAIN dl \cap DOMAIN dl' :
             dl'[k].status # dl[k].status =>
               <<dl[k].status, dl'[k].status>> \in dnStepOrder
        /\ disk' # disk =>
             \E k \in DOMAIN dl :
               /\ dl[k].status = "write" /\ dl'[k].status = "done"
               /\ disk' = writeFile(disk, dnFilePath(dl[k].key), <<"object", dl[k].key>>)
       ]_vars

\* C20 witness: one key failed on a body that is not a stream, another after
\* its request was sent, neither has a local file; a third key is written
\* and a fourth has its whole body and its write under way, not yet a file
DownloadOrderWitness ==
  /\ cmd = S3Download /\ Len(dl) >= 4
  /\ dl[1].status = "failed" /\ dl[1].unexpectedBody
  /\ dl[2].status = "failed" /\ dl[2].gets = 1 /\ ~dl[2].unexpectedBody
  /\ dl[3].status = "done" /\ dnFilePath(dl[3].key) \in DOMAIN disk
  /\ dl[4].status = "write" /\ dnFilePath(dl[4].key) \notin DOMAIN disk
  /\ DOMAIN disk = {dnFilePath(dl[3].key)}

(***************************************************************************)
(* Properties of the CLI and of all four commands.                         *)
(***************************************************************************)
\* C12: a command exits once: with 0 after its operation resolved and with 1
\* after it rejected, never with 0 after a rejection or 1 after a success,
\* never while the operation is pending; once the operation has settled the
\* exit is the step that follows, and nothing happens after it
ExitCodeFollowsOutcome ==
  /\ [](/\ exitCode \in {NoExit, 0, 1}
        /\ exitCode = 0 => result = "resolved"
        /\ exitCode = 1 => result = "rejected"
        /\ (result # "pending" /\ exitCode = NoExit) => ENABLED CliExit)
  /\ [][exitCode = NoExit /\ (exitCode' # NoExit => UNCHANGED <<result, log, disk>>)]_vars

\* C12 witness: s3-download exited 1 after one key's download failed and
\* another key of the batch had been written
ExitOneWitness ==
  /\ cmd = S3Download /\ exitCode = 1 /\ result = "rejected"
  /\ \E k \in DOMAIN dl : dl[k].status = "failed"
  /\ \E k \in DOMAIN dl : dl[k].status = "done"

\* C13: no per-item operation is repeated. downloadFile is called once at
\* most for a listed key and sends one GetObject at most; the k-th file read
\* and the k-th put are those of the k-th walked file; the k-th conversion is
\* that of the k-th PDF; processFile is called once for the k-th entry. A run
\* that resolves has done each of them for every item
NothingIsRetried ==
  /\ \A k \in DOMAIN dl :
       /\ dl[k].key = objects[k]
       /\ dl[k].calls <= 1 /\ dl[k].gets <= dl[k].calls
  /\ (cmd = S3Download /\ result = "resolved") =>
       /\ Len(dl) = Len(bucketKeys)
       /\ \A k \in DOMAIN dl :
            /\ dl[k].calls = 1
            /\ dl[k].gets = IF isDirectory(dl[k].key) THEN 0 ELSE 1
  /\ Len(reads) <= Len(files) /\ Len(puts) <= Len(files)
  /\ \A k \in DOMAIN reads : reads[k] = files[k].fullPath
  /\ \A k \in DOMAIN puts : puts[k].Body = files[k].fullPath
  /\ (cmd = S3Upload /\ result = "resolved" /\ walkReturned) =>
       /\ ui = Len(files) + 1
       /\ ~dryRun => (Len(reads) = Len(files) /\ Len(puts) = Len(files))
  /\ Len(attempts) <= Len(pdfFiles)
  /\ \A k \in DOMAIN attempts : attempts[k].file = pdfFiles[k]
  /\ (cmd = GeneratePreviews /\ result = "resolved") =>
       /\ Len(attempts) = Len(pdfFiles)
       /\ pdfFiles = SelectSeq(source, isPdfFile)
  /\ Len(procs) \in {0, Len(staging)}
  /\ \A i \in DOMAIN procs : procs[i].filename = staging[i]
  /\ (cmd = GenerateMarkdown /\ result = "resolved") =>
       /\ Len(procs) = Len(staging)
       /\ \A i \in DOMAIN procs :
            procs[i].status \in {"skipped", "written"}
            /\ (procs[i].status = "written" => procs[i].outputPath \in DOMAIN disk)

\* C13 witness: a preview run over three PDFs resolved although a conversion
\* had failed, with three conversions made, one for each file
NoRetryWitness ==
  /\ cmd = GeneratePreviews /\ result = "resolved" /\ exitCode = 0
  /\ Len(pdfFiles) = 3 /\ Len(attempts) = 3
  /\ \E k \in DOMAIN attempts : attempts[k].status = "failed"
  /\ \E k \in DOMAIN attempts : attempts[k].status = "done"

\* the objects whose downloadFile call has started and not settled
dlInFlight ==
  {k \in DOMAIN dl : dl[k].status \in {"mkdir", "send", "stream", "write"}}

\* C17: at every moment at most batchSize downloads are in flight, all of one
\* batch, and a key is started only when every key of the batches before has
\* finished; the file read for upload is the one after the last file whose
\* put was stored, and one conversion at most is under way, the last one
\* started
InFlightIsBounded ==
  /\ Cardinality(dlInFlight) <= batchSize
  /\ \A j, k \in dlInFlight : batchEnd(j) = batchEnd(k)
  /\ \A k \in DOMAIN dl :
       dl[k].status # "idle" =>
         \A j \in DOMAIN dl :
           batchEnd(j) < batchEnd(k) => dl[j].status \in {"skipped", "done"}
  /\ \A k \in DOMAIN reads :
       k > 1 => /\ k - 1 \in DOMAIN puts
                /\ puts[k - 1].Key \in DOMAIN bucket
  /\ cmd = S3Upload =>
       /\ Len(reads) <= ui
       /\ Len(puts) <= Len(reads)
       /\ pc \in {"readFile", "send"} => Len(reads) = ui
  /\ \A k \in DOMAIN attempts :
       k < Len(attempts) => attempts[k].status \in {"done", "failed"}

\* C17 witness: of seven keys the five of the first batch are written and
\* the last key, of the second batch, is in flight alone
SecondBatchWitness ==
  /\ cmd = S3Download /\ Len(dl) = 7
  /\ \A k \in 1 .. 5 : dl[k].status = "done"
  /\ dl[6].status = "skipped"
  /\ dlInFlight = {7}

\* the local directories the downloads made: the parent of the local path of
\* each key whose mkdir returned
dirsOfFetchedKeys ==
  { pathDirname(dnFilePath(dl[k].key)) : k \in {j \in DOMAIN dl : dl[j].gets > 0} }

\* C18: for a key that ends in a slash downloadFile resolves with no GetObject
\* sent, no local directory made and no local file written, and the batch does
\* not fail for it: only a listing error or the failure of another key
\* rejects downloadAll
DirectoryMarkerIsSkipped ==
  cmd = S3Download =>
    /\ \A k \in DOMAIN dl :
         dl[k].key[Len(dl[k].key)] = "/" =>
           /\ dl[k].status = IF k <= bi THEN "skipped" ELSE "idle"
           /\ dl[k].gets = 0
           /\ dnFilePath(dl[k].key) \notin DOMAIN disk
           /\ \A path \in DOMAIN disk : path[Len(path)] # "/"
           /\ k <= bi => LogEntry("debug", "Skipping directory", dl[k].key) \in log
    /\ dirs = dirsOfFetchedKeys
    /\ result = "rejected" =>
         \/ loggedItems("Error listing S3 objects") # {}
         \/ \E k \in DOMAIN dl :
              dl[k].status = "failed" /\ dl[k].key[Len(dl[k].key)] # "/"

\* C18 witness: six keys were listed, the sixth a directory marker alone in
\* the second batch; the run resolved and exited 0 with five files written
\* and no directory made for the marker
MarkerWitness ==
  /\ cmd = S3Download /\ Len(dl) = 6
  /\ result = "resolved" /\ exitCode = 0
  /\ dl[6].key = <<"h", "/">> /\ dl[6].status = "skipped" /\ dl[6].calls = 1
  /\ Cardinality(DOMAIN disk) = 5
  /\ dirs = {dnLocalPath, dnLocalPath \o <<"/", "d">>}

====
